---- MODULE Spec2Model ----
(***************************************************************************)
(* Model of scripts/generate_solar_frames.py: the module-level synodic     *)
(* tables, calculate_age, and main() as a sequential state machine whose   *)
(* steps are separated at the external calls (curl, the file system, PIL,  *)
(* ffmpeg).  Dates are records [year, month, day]; every instant the       *)
(* script handles is a midnight, so the time of day is not carried.        *)
(* Orbital periods are kept in thousandths of a day so that the arithmetic *)
(* on them is exact.                                                       *)
(***************************************************************************)
EXTENDS Integers, Sequences, FiniteSets, TLC

\* ------------------------------------------------------------------------
\* Bounds of the model
\* ------------------------------------------------------------------------
\* the largest --step-days
MaxStep == 3
\* how many rendered frame files the environment may remove before the
\* overlay pass looks for them
MaxMissing == 1

\* the values --step-days takes
StepChoices == (0 - 1)..MaxStep

\* ------------------------------------------------------------------------
\* Calendar (Python's calendar / datetime, as used by the script)
\* ------------------------------------------------------------------------
Date(y, m, d) == [year |-> y, month |-> m, day |-> d]

IsLeap(y) == (y % 4 = 0) /\ ((y % 100 # 0) \/ (y % 400 = 0))

\* calendar.monthrange(year, month)[1]
DaysInMonth(y, m) ==
    IF m = 2 THEN (IF IsLeap(y) THEN 29 ELSE 28)
    ELSE IF m \in {4, 6, 9, 11} THEN 30 ELSE 31

\* a parser that checks the day against 31 whatever the month
StrptimeOK_AnyMonth31(s) ==
    /\ s.month \in 1..12
    /\ s.day \in 1..31

\* datetime.strptime(s, "%Y-%m-%d") succeeds exactly when the fields form a
\* calendar date; otherwise it raises ValueError
StrptimeOK(s) ==
    /\ s.month \in 1..12
    /\ s.day \in 1..DaysInMonth(s.year, s.month)

\* datetime comparison a < b and a <= b
DateLess(a, b) ==
    \/ a.year < b.year
    \/ a.year = b.year /\ a.month < b.month
    \/ a.year = b.year /\ a.month = b.month /\ a.day < b.day

DateLE(a, b) == a = b \/ DateLess(a, b)

\* the day after a
NextDay(a) ==
    IF a.day < DaysInMonth(a.year, a.month) THEN Date(a.year, a.month, a.day + 1)
    ELSE IF a.month < 12 THEN Date(a.year, a.month + 1, 1)
    ELSE Date(a.year + 1, 1, 1)

\* a + datetime.timedelta(days=n), n >= 0
RECURSIVE AddDays(_, _)
AddDays(a, n) == IF n <= 0 THEN a ELSE AddDays(NextDay(a), n - 1)

\* a.toordinal(): days before the year, plus days before the month, plus day
DaysBeforeYear(y) ==
    (y - 1) * 365 + ((y - 1) \div 4) - ((y - 1) \div 100) + ((y - 1) \div 400)

RECURSIVE DaysBeforeMonth(_, _)
DaysBeforeMonth(y, m) ==
    IF m <= 1 THEN 0 ELSE DaysBeforeMonth(y, m - 1) + DaysInMonth(y, m - 1)

Ordinal(a) == DaysBeforeYear(a.year) + DaysBeforeMonth(a.year, a.month) + a.day

\* (b - a).days
DaysBetween(a, b) == Ordinal(b) - Ordinal(a)

\* ------------------------------------------------------------------------
\* calculate_age
\* ------------------------------------------------------------------------
calculate_age(birth, current) ==
    LET years0  == current.year - birth.year
        months0 == current.month - birth.month
        days0   == current.day - birth.day
        prev_month == IF current.month = 1 THEN 12 ELSE current.month - 1
        prev_year  == IF current.month = 1 THEN current.year - 1 ELSE current.year
        months1 == IF days0 < 0 THEN months0 - 1 ELSE months0
        days1   == IF days0 < 0 THEN days0 + DaysInMonth(prev_year, prev_month)
                   ELSE days0
        years2  == IF months1 < 0 THEN years0 - 1 ELSE years0
        months2 == IF months1 < 0 THEN months1 + 12 ELSE months1
    IN  [years |-> years2, months |-> months2, days |-> days1]

\* ------------------------------------------------------------------------
\* Orbital and synodic periods (thousandths of a day)
\* ------------------------------------------------------------------------
ORBITAL_PERIODS_DAYS ==
    [Mercury |-> 87969,    Venus   |-> 224701,   Earth  |-> 365256,
     Mars    |-> 686980,   Jupiter |-> 4332590,  Saturn |-> 10759220,
     Uranus  |-> 30685400, Neptune |-> 60189000, Pluto  |-> 90560000]

EARTH_PERIOD == ORBITAL_PERIODS_DAYS["Earth"]

InnerNames == {"Mercury", "Venus"}
OuterNames == {"Mars", "Jupiter", "Saturn", "Uranus", "Neptune", "Pluto"}

Abs(x) == IF x < 0 THEN 0 - x ELSE x

\* <<q, r>> with a * b = q * d + r and 0 <= r < d, by binary decomposition of
\* b so that no intermediate value exceeds 3 * d
RECURSIVE MulDiv(_, _, _)
MulDiv(a, b, d) ==
    IF b = 0 THEN <<0, 0>>
    ELSE LET h   == MulDiv(a, b \div 2, d)
             add == IF b % 2 = 1 THEN a ELSE 0
             q2  == 2 * h[1] + (add \div d)
             r2  == 2 * h[2] + (add % d)
         IN  <<q2 + (r2 \div d), r2 % d>>

\* the two angular velocities added instead of subtracted: a * b / (a + b)
SynodicPeriod_Sum(a, b) ==
    LET qr == MulDiv(a, b, a + b)
    IN  [whole |-> qr[1], rem |-> qr[2], den |-> a + b]

\* 1.0 / abs((1.0 / a) - (1.0 / b)) = a * b / |b - a|, as the exact value
\* whole + rem / den
SynodicPeriod(a, b) ==
    LET d  == Abs(b - a)
        qr == MulDiv(a, b, d)
    IN  [whole |-> qr[1], rem |-> qr[2], den |-> d]

\* a / b < c / d for a, c >= 0 and b, d > 0, by continued-fraction expansion
RECURSIVE RatLess(_, _, _, _)
RatLess(a, b, c, d) ==
    LET qa == a \div b
        qc == c \div d
        ra == a % b
        rc == c % d
    IN  IF qa # qc THEN qa < qc
        ELSE IF rc = 0 THEN FALSE
        ELSE IF ra = 0 THEN TRUE
        ELSE RatLess(d, rc, b, ra)

\* x < y on synodic periods
SynLess(x, y) ==
    \/ x.whole < y.whole
    \/ x.whole = y.whole /\ RatLess(x.rem, x.den, y.rem, y.den)

\* ------------------------------------------------------------------------
\* Command line and environment
\* ------------------------------------------------------------------------
\* a date variable that has not been assigned, and an absent --end-date
NoDate == Date(0, 0, 0)

\* birth_date strings, by their fields (2001-02-30 is not a date)
BirthDateChoices ==
    {Date(2001, 1, 30), Date(2001, 1, 31), Date(2001, 2, 27), Date(2001, 2, 30)}

\* --end-date strings (2001-13-01 is not a date), or none
EndDateChoices ==
    {NoDate, Date(2001, 1, 31), Date(2001, 2, 27), Date(2001, 3, 2),
     Date(2001, 3, 3), Date(2001, 13, 1)}

\* what datetime.datetime.now() may return, at midnight
TodayChoices == {Date(2001, 3, 1), Date(2001, 3, 4)}

NameChoices == {"", "Ada"}

NoArgs == [birth_date |-> NoDate, end_date |-> NoDate, step_days |-> 0, name |-> ""]

VARIABLES
    pc,             \* position in the script
    HAS_PIL,        \* whether the PIL import succeeded
    SYNODIC_INNER,  \* name -> synodic period
    SYNODIC_OUTER,
    args,           \* parsed command line
    start, end, step, birth_date,
    t, i,           \* fetch loop: current instant, frame counter
    frame_num,      \* overlay loop variable
    requests,       \* render requests issued so far: [index, utc]
    failedFetch,    \* index of the render request whose curl failed, or 0
    gifFiles,       \* frame_NNNNN.gif present in frames/
    missing,        \* rendered frames removed by the environment
    metadata,       \* frames_metadata.json: <<>> or <<record>>
    annotations,    \* frame_num -> what the overlay pass computed for it
    pngFiles,       \* frame_NNNNN.png present in video_frames/
    frames_list,    \* frames_list.txt: the indices listed, in order
    ffmpegRuns,     \* the frame list of each ffmpeg invocation
    exitStatus      \* -1 while running, else the process exit status

vars == <<pc, HAS_PIL, SYNODIC_INNER, SYNODIC_OUTER, args, start, end, step,
          birth_date, t, i, frame_num, requests, failedFetch, gifFiles,
          missing, metadata, annotations, pngFiles, frames_list, ffmpegRuns,
          exitStatus>>

tableVars == <<HAS_PIL, SYNODIC_INNER, SYNODIC_OUTER>>
cfgVars   == <<args, start, end, step, birth_date>>
fetchVars == <<t, i, requests, failedFetch>>
ovlVars   == <<frame_num, annotations, pngFiles>>
outVars   == <<metadata, frames_list, ffmpegRuns>>

EmptyTable == [n \in {} |-> 0]

Init ==
    /\ pc = "import"
    /\ HAS_PIL = FALSE
    /\ SYNODIC_INNER = EmptyTable
    /\ SYNODIC_OUTER = EmptyTable
    /\ args = NoArgs
    /\ start = NoDate /\ end = NoDate /\ step = 0 /\ birth_date = NoDate
    /\ t = NoDate /\ i = 0
    /\ frame_num = 0
    /\ requests = <<>>
    /\ failedFetch = 0
    /\ gifFiles = {}
    /\ missing = 0
    /\ metadata = <<>>
    /\ annotations = EmptyTable
    /\ pngFiles = {}
    /\ frames_list = <<>>
    /\ ffmpegRuns = <<>>
    /\ exitStatus = 0 - 1

\* sys.exit(status), or an uncaught exception (status 1)
Exit(status) == pc' = "exit" /\ exitStatus' = status

\* ------------------------------------------------------------------------
\* Module load
\* ------------------------------------------------------------------------
\* try: from PIL import ... except ImportError
ImportPIL ==
    /\ pc = "import"
    /\ HAS_PIL' \in BOOLEAN
    /\ pc' = "synodic_inner"
    /\ UNCHANGED <<SYNODIC_INNER, SYNODIC_OUTER, cfgVars, fetchVars, ovlVars,
                   outVars, gifFiles, missing, exitStatus>>

LoadSynodicInner ==
    /\ pc = "synodic_inner"
    /\ SYNODIC_INNER' =
          [n \in InnerNames |-> SynodicPeriod(ORBITAL_PERIODS_DAYS[n], EARTH_PERIOD)]
    /\ pc' = "synodic_outer"
    /\ UNCHANGED <<HAS_PIL, SYNODIC_OUTER, cfgVars, fetchVars, ovlVars,
                   outVars, gifFiles, missing, exitStatus>>

LoadSynodicOuter ==
    /\ pc = "synodic_outer"
    /\ SYNODIC_OUTER' =
          [n \in OuterNames |-> SynodicPeriod(EARTH_PERIOD, ORBITAL_PERIODS_DAYS[n])]
    /\ pc' = "parse_args"
    /\ UNCHANGED <<HAS_PIL, SYNODIC_INNER, cfgVars, fetchVars, ovlVars,
                   outVars, gifFiles, missing, exitStatus>>

\* ------------------------------------------------------------------------
\* main(): configuration
\* ------------------------------------------------------------------------
ParseArgs ==
    /\ pc = "parse_args"
    /\ \E b \in BirthDateChoices, e \in EndDateChoices,
          s \in StepChoices, n \in NameChoices :
          args' = [birth_date |-> b, end_date |-> e, step_days |-> s, name |-> n]
    /\ pc' = "parse_start"
    /\ UNCHANGED <<tableVars, start, end, step, birth_date, fetchVars, ovlVars,
                   outVars, gifFiles, missing, exitStatus>>

ParseStartDate ==
    /\ pc = "parse_start"
    /\ IF StrptimeOK(args.birth_date)
       THEN /\ start' = args.birth_date
            /\ pc' = "parse_end"
            /\ UNCHANGED exitStatus
       ELSE /\ Exit(1)
            /\ UNCHANGED start
    /\ UNCHANGED <<tableVars, args, end, step, birth_date, fetchVars, ovlVars,
                   outVars, gifFiles, missing>>

ParseEndDate ==
    /\ pc = "parse_end"
    /\ IF args.end_date # NoDate
       THEN IF StrptimeOK(args.end_date)
            THEN /\ end' = args.end_date
                 /\ pc' = "check_step"
                 /\ UNCHANGED exitStatus
            ELSE /\ Exit(1)
                 /\ UNCHANGED end
       ELSE /\ end' \in TodayChoices
            /\ pc' = "check_step"
            /\ UNCHANGED exitStatus
    /\ UNCHANGED <<tableVars, args, start, step, birth_date, fetchVars, ovlVars,
                   outVars, gifFiles, missing>>

\* the step check, then the set-up of the fetch loop
CheckStepDays ==
    /\ pc = "check_step"
    /\ IF args.step_days <= 0
       THEN /\ Exit(1)
            /\ UNCHANGED <<step, birth_date, t, i>>
       ELSE /\ step' = args.step_days
            /\ birth_date' = start
            /\ t' = start
            /\ i' = 0
            /\ pc' = "fetch_loop"
            /\ UNCHANGED exitStatus
    /\ UNCHANGED <<tableVars, args, start, end, requests, failedFetch, ovlVars,
                   outVars, gifFiles, missing>>

\* ------------------------------------------------------------------------
\* main(): the frame-fetch loop
\* ------------------------------------------------------------------------
\* the loop written with t < end
LoopCond_Strict(tt, e) == DateLess(tt, e)

\* while t <= end
LoopCond(tt, e) == DateLE(tt, e)

\* the final-frame test without its t < end guard
NeedsFinalFrame_NoGuard(tt, st, e) == DateLess(e, AddDays(tt, st))

\* if next_date > end and t < end
NeedsFinalFrame(tt, st, e) == DateLess(e, AddDays(tt, st)) /\ DateLess(tt, e)

\* one render request: i += 1, the URL keyed by the instant, curl -o frame_i.gif
Request(instant) == Append(requests, [index |-> i + 1, utc |-> instant])

\* a fetch loop that overlays and stores each frame as soon as it is rendered
FetchFrameOk_Interleaved ==
    /\ pc = "fetch_loop"
    /\ DateLE(t, end)
    /\ i' = i + 1
    /\ requests' = Request(t)
    /\ gifFiles' = gifFiles \cup {i + 1}
    /\ pngFiles' = pngFiles \cup {i + 1}
    /\ pc' = "check_final"
    /\ UNCHANGED <<tableVars, cfgVars, t, failedFetch, frame_num, annotations,
                   outVars, missing, exitStatus>>

\* curl exits 0 for the regular frame of this iteration
FetchFrameOk ==
    /\ pc = "fetch_loop"
    /\ LoopCond(t, end)
    /\ i' = i + 1
    /\ requests' = Request(t)
    /\ gifFiles' = gifFiles \cup {i + 1}
    /\ pc' = "check_final"
    /\ UNCHANGED <<tableVars, cfgVars, t, failedFetch, ovlVars, outVars,
                   missing, exitStatus>>

\* a failure handler that reports the error and goes on with the loop
FetchFrameFail_Continue ==
    /\ pc = "fetch_loop"
    /\ DateLE(t, end)
    /\ i' = i + 1
    /\ requests' = Request(t)
    /\ failedFetch' = i + 1
    /\ pc' = "check_final"
    /\ UNCHANGED <<tableVars, cfgVars, t, ovlVars, outVars, gifFiles, missing,
                   exitStatus>>

\* curl exits non-zero: CalledProcessError, sys.exit(1)
FetchFrameFail ==
    /\ pc = "fetch_loop"
    /\ LoopCond(t, end)
    /\ i' = i + 1
    /\ requests' = Request(t)
    /\ failedFetch' = i + 1
    /\ Exit(1)
    /\ UNCHANGED <<tableVars, cfgVars, t, ovlVars, outVars, gifFiles, missing>>

\* t = next_date
Advance ==
    /\ pc = "check_final"
    /\ ~NeedsFinalFrame(t, step, end)
    /\ t' = AddDays(t, step)
    /\ pc' = "fetch_loop"
    /\ UNCHANGED <<tableVars, cfgVars, i, requests, failedFetch, ovlVars,
                   outVars, gifFiles, missing, exitStatus>>

\* the final frame at the exact end date, then break
FetchFinalOk ==
    /\ pc = "check_final"
    /\ NeedsFinalFrame(t, step, end)
    /\ i' = i + 1
    /\ requests' = Request(end)
    /\ gifFiles' = gifFiles \cup {i + 1}
    /\ pc' = "write_metadata"
    /\ UNCHANGED <<tableVars, cfgVars, t, failedFetch, ovlVars, outVars,
                   missing, exitStatus>>

FetchFinalFail ==
    /\ pc = "check_final"
    /\ NeedsFinalFrame(t, step, end)
    /\ i' = i + 1
    /\ requests' = Request(end)
    /\ failedFetch' = i + 1
    /\ Exit(1)
    /\ UNCHANGED <<tableVars, cfgVars, t, ovlVars, outVars, gifFiles, missing>>

\* the while condition is false
LoopExit ==
    /\ pc = "fetch_loop"
    /\ ~LoopCond(t, end)
    /\ pc' = "write_metadata"
    /\ UNCHANGED <<tableVars, cfgVars, fetchVars, ovlVars, outVars, gifFiles,
                   missing, exitStatus>>

\* ------------------------------------------------------------------------
\* main(): metadata, overlay pass, video
\* ------------------------------------------------------------------------
WriteMetadata ==
    /\ pc = "write_metadata"
    /\ metadata' = <<[start_date   |-> start,
                      step_days    |-> args.step_days,
                      total_frames |-> i,
                      name         |-> args.name,
                      birth_date   |-> birth_date]>>
    /\ pc' = "check_pil"
    /\ UNCHANGED <<tableVars, cfgVars, fetchVars, ovlVars, frames_list,
                   ffmpegRuns, gifFiles, missing, exitStatus>>

\* if not HAS_PIL: sys.exit(1); otherwise the overlay loop starts at frame 1
CheckPIL ==
    /\ pc = "check_pil"
    /\ IF HAS_PIL
       THEN /\ frame_num' = 1
            /\ pc' = "overlay"
            /\ UNCHANGED exitStatus
       ELSE /\ Exit(1)
            /\ UNCHANGED frame_num
    /\ UNCHANGED <<tableVars, cfgVars, fetchVars, annotations, pngFiles,
                   outVars, gifFiles, missing>>

\* the environment removes the rendered frame the overlay pass is about to read
EnvRemoveFrame ==
    /\ pc = "overlay"
    /\ frame_num <= i
    /\ frame_num \in gifFiles
    /\ missing < MaxMissing
    /\ gifFiles' = gifFiles \ {frame_num}
    /\ missing' = missing + 1
    /\ UNCHANGED <<pc, tableVars, cfgVars, fetchVars, ovlVars, outVars, exitStatus>>

\* if not frame_path.exists(): continue
OverlaySkip ==
    /\ pc = "overlay"
    /\ frame_num <= i
    /\ frame_num \notin gifFiles
    /\ frame_num' = frame_num + 1
    /\ UNCHANGED <<pc, tableVars, cfgVars, fetchVars, annotations, pngFiles,
                   outVars, gifFiles, missing, exitStatus>>

\* what the overlay pass computes for frame k
Annotation(k) ==
    LET current_date == AddDays(start, (k - 1) * args.step_days)
    IN  [date         |-> current_date,
         age          |-> calculate_age(birth_date, current_date),
         elapsed_days |-> DaysBetween(start, current_date),
         subject      |-> IF args.name # "" THEN args.name ELSE "Earth"]

\* the frame is annotated and saved as frame_NNNNN.png
OverlayFrame ==
    /\ pc = "overlay"
    /\ frame_num <= i
    /\ frame_num \in gifFiles
    /\ annotations' = (frame_num :> Annotation(frame_num)) @@ annotations
    /\ pngFiles' = pngFiles \cup {frame_num}
    /\ frame_num' = frame_num + 1
    /\ UNCHANGED <<pc, tableVars, cfgVars, fetchVars, outVars, gifFiles,
                   missing, exitStatus>>

\* Image.open, resize or save raises: the exception is not caught
OverlayCrash ==
    /\ pc = "overlay"
    /\ frame_num <= i
    /\ frame_num \in gifFiles
    /\ Exit(1)
    /\ UNCHANGED <<tableVars, cfgVars, fetchVars, ovlVars, outVars, gifFiles,
                   missing>>

\* the lines of frames_list.txt for idx..n: only the frames whose png exists
RECURSIVE ConcatLines(_, _, _)
ConcatLines(idx, n, png) ==
    IF idx > n THEN <<>>
    ELSE (IF idx \in png THEN <<idx>> ELSE <<>>) \o ConcatLines(idx + 1, n, png)

\* the overlay loop is over; frames_list.txt is written
WriteConcat ==
    /\ pc = "overlay"
    /\ frame_num > i
    /\ frames_list' = ConcatLines(1, i, pngFiles)
    /\ pc' = "ffmpeg"
    /\ UNCHANGED <<tableVars, cfgVars, fetchVars, ovlVars, metadata,
                   ffmpegRuns, gifFiles, missing, exitStatus>>

\* ffmpeg -f concat -i frames_list.txt succeeds; finally: unlink the list
RunFfmpegOk ==
    /\ pc = "ffmpeg"
    /\ ffmpegRuns' = Append(ffmpegRuns, frames_list)
    /\ frames_list' = <<>>
    /\ Exit(0)
    /\ UNCHANGED <<tableVars, cfgVars, fetchVars, ovlVars, metadata, gifFiles,
                   missing>>

\* ffmpeg fails: sys.exit(1); finally: unlink the list
RunFfmpegFail ==
    /\ pc = "ffmpeg"
    /\ ffmpegRuns' = Append(ffmpegRuns, frames_list)
    /\ frames_list' = <<>>
    /\ Exit(1)
    /\ UNCHANGED <<tableVars, cfgVars, fetchVars, ovlVars, metadata, gifFiles,
                   missing>>

Next ==
    \/ ImportPIL
    \/ LoadSynodicInner
    \/ LoadSynodicOuter
    \/ ParseArgs
    \/ ParseStartDate
    \/ ParseEndDate
    \/ CheckStepDays
    \/ FetchFrameOk
    \/ FetchFrameFail
    \/ Advance
    \/ FetchFinalOk
    \/ FetchFinalFail
    \/ LoopExit
    \/ WriteMetadata
    \/ CheckPIL
    \/ EnvRemoveFrame
    \/ OverlaySkip
    \/ OverlayFrame
    \/ OverlayCrash
    \/ WriteConcat
    \/ RunFfmpegOk
    \/ RunFfmpegFail

Spec == Init /\ [][Next]_vars

\* ------------------------------------------------------------------------
\* Properties
\* ------------------------------------------------------------------------
\* the fetch loop has ended without a failed render request
FetchLoopDone ==
    \/ pc \in {"write_metadata", "check_pil", "overlay", "ffmpeg"}
    \/ pc = "exit" /\ metadata # <<>>

\* the command line has been read
ArgsRead == pc \notin {"import", "synodic_inner", "synodic_outer", "parse_args"}

\* C1: for start < end the instants of the render requests are strictly
\* increasing, the first one is start, and once the fetch loop has ended the
\* last one is end.
Thm_C1_RequestsIncreasingStartToEnd ==
    (requests # <<>> \/ FetchLoopDone) /\ DateLess(start, end) =>
        /\ \A j \in 1..(Len(requests) - 1) :
              DateLess(requests[j].utc, requests[j + 1].utc)
        /\ requests # <<>> => requests[1].utc = start
        /\ FetchLoopDone =>
              /\ requests # <<>>
              /\ requests[Len(requests)].utc = end

\* a finished fetch loop whose last request is the forced one at end
Wit_C1_ForcedFinal ==
    /\ FetchLoopDone
    /\ DateLess(start, end)
    /\ DaysBetween(start, end) % step # 0
    /\ Len(requests) >= 3
    /\ requests[Len(requests)].utc = end

\* C2: for start <= end the frame counter at the end of the fetch loop, which
\* is the recorded total_frames, is ceil((end - start) / step_days) + 1.
Thm_C2_SampleCount ==
    FetchLoopDone /\ DateLE(start, end) =>
        /\ i = ((DaysBetween(start, end) + step - 1) \div step) + 1
        /\ Len(requests) = i
        /\ metadata # <<>> => metadata[1].total_frames = i

\* stepping landed exactly on end, after at least one step, and the count was
\* recorded
Wit_C2_ExactLanding ==
    /\ metadata # <<>>
    /\ DateLess(start, end)
    /\ DaysBetween(start, end) % step = 0
    /\ step > 1
    /\ metadata[1].total_frames = (DaysBetween(start, end) \div step) + 1

\* C3: every age computed for a current date on or after the start date has
\* months in 0..11 and days >= 0.
Cex_C3_AgeInRange ==
    \A k \in DOMAIN annotations :
        DateLE(start, annotations[k].date) =>
            /\ annotations[k].age.months \in 0..11
            /\ annotations[k].age.days >= 0

\* C4: advancing the start date by the computed years and months (day of
\* month clamped) and then by the computed days gives the current date.
Cex_C4_AgeRoundTrip ==
    \A k \in DOMAIN annotations :
        DateLE(start, annotations[k].date) =>
            LET a  == annotations[k].age
                mm == (start.month - 1) + a.months
                yy == start.year + a.years + (mm \div 12)
                mo == (mm % 12) + 1
                dd == IF start.day > DaysInMonth(yy, mo)
                      THEN DaysInMonth(yy, mo) ELSE start.day
            IN  Ordinal(Date(yy, mo, dd)) + a.days = Ordinal(annotations[k].date)

\* C5: when a render request fails, the run is over with status 1, the failed
\* request is the last one issued, and neither the metadata file, nor an
\* overlay frame, nor an ffmpeg run exists.
Thm_C5_FailFastOnRender ==
    failedFetch # 0 =>
        /\ pc = "exit"
        /\ exitStatus = 1
        /\ Len(requests) = failedFetch
        /\ metadata = <<>>
        /\ annotations = EmptyTable
        /\ pngFiles = {}
        /\ frames_list = <<>>
        /\ ffmpegRuns = <<>>

\* a render request failed after earlier ones had succeeded
Wit_C5_LaterFetchFailed ==
    /\ failedFetch >= 3
    /\ gifFiles = 1..(failedFetch - 1)
    /\ pc = "exit"

\* C6: whenever ffmpeg is invoked for a run of N samples, its frame list is
\* exactly 1..N in order.
Cex_C6_GapFreeVideoInput ==
    \A r \in 1..Len(ffmpegRuns) : ffmpegRuns[r] = [k \in 1..i |-> k]

Cex_C8_InnerBelowOuter ==
    \A a \in DOMAIN SYNODIC_INNER : \A b \in DOMAIN SYNODIC_OUTER :
        SynLess(SYNODIC_INNER[a], SYNODIC_OUTER[b])

\* C8 as amended: Mercury's synodic period is strictly smaller than every
\* outer planet's and Venus's is strictly smaller than Mars's, but Venus's is
\* larger than those of Jupiter, Saturn, Uranus, Neptune and Pluto.
Thm_C8_SynodicOrder ==
    ArgsRead \/ pc = "parse_args" =>
        /\ \A b \in OuterNames : SynLess(SYNODIC_INNER["Mercury"], SYNODIC_OUTER[b])
        /\ SynLess(SYNODIC_INNER["Venus"], SYNODIC_OUTER["Mars"])
        /\ \A b \in OuterNames \ {"Mars"} :
              SynLess(SYNODIC_OUTER[b], SYNODIC_INNER["Venus"])

\* both tables are computed: Mercury about 115.877 days, Venus about 583.923
Wit_C8_TablesLoaded ==
    /\ DOMAIN SYNODIC_INNER = InnerNames
    /\ DOMAIN SYNODIC_OUTER = OuterNames
    /\ SYNODIC_INNER["Mercury"].whole = 115877
    /\ SYNODIC_INNER["Venus"].whole = 583923
    /\ SYNODIC_OUTER["Jupiter"].whole = 398883

\* C9: the date and the elapsed days the overlay pass computes for frame k
\* are those of the instant frame k was requested for.
Cex_C9_AnnotationMatchesRequest ==
    \A k \in DOMAIN annotations :
        /\ annotations[k].date = requests[k].utc
        /\ annotations[k].elapsed_days = DaysBetween(start, requests[k].utc)

====
